---- MODULE Spec2Model ----
(***************************************************************************)
(* State-machine model of voice_live_web_server.py: the registry           *)
(* active_connections, the WebVoiceLiveSession objects, the Socket.IO      *)
(* event handlers and the _listen_for_responses relay thread of every      *)
(* session.                                                                *)
(*                                                                         *)
(* A client handler is one step, but for the stop and disconnect handlers, *)
(* which are two (stop_session, then the del of the registry entry).  The  *)
(* relay thread is one step per loop check, recv, dispatch, emit and       *)
(* sleep, so that the handlers interleave with the relay the way the       *)
(* threads of the server do.  The events of one client are handled one at  *)
(* a time (Delivered), but in SpecConc, where its stop and its disconnect  *)
(* overlap.  A session object that neither the registry nor a running      *)
(* relay thread refers to is freed at once (Collect).                      *)
(*                                                                         *)
(* Specifications: Spec (one client, every handler), SpecRelay (every      *)
(* frame kind, history kept), SpecLive (fair scheduling of the threads),   *)
(* SpecConc (overlapping stop and disconnect), SpecTwo (two clients).      *)
(*                                                                         *)
(* VoiceLiveConnection and AudioPlayerAsync come from voice_live_web,      *)
(* which is not among the sources: send, recv and close are modelled from  *)
(* the specification (each may succeed or raise; recv may return nothing). *)
(*                                                                         *)
(* History variables: sent and outstanding count the frames sent for a     *)
(* client; rcvd and pub keep what a relay received and published, in       *)
(* SpecRelay only; boundary, stopped and spawned record what happened to a *)
(* session; last describes the step just taken.                            *)
(***************************************************************************)
EXTENDS Integers, Sequences, FiniteSets, TLC

\* ------------------------------------------------------------------ bounds
\* Sessions of a client that have left the registry and are not freed yet
\* (or were freed) when the client starts a session again.
MaxRestarts == 0
\* Frames the relays receive from downstream while their history is kept.
MaxFrames == 2
\* Audio and response.create frames sent downstream for one client.
MaxSend == 2

\* ------------------------------------------------------------- vocabulary
Sids == {"sidA", "sidB"}
OneClient == {"sidA"}
NoSid == "none"
Freed == "freed"
\* The session objects: 2 + MaxRestarts for sidA, then as many for sidB
\* (one more than a client's restarts need, for a start that constructs a
\* session while one is registered).
Objs == 1 .. 2 * (2 + MaxRestarts)
SlotsOf(sid) ==
  IF sid = "sidA" THEN 1 .. (2 + MaxRestarts)
  ELSE (3 + MaxRestarts) .. 2 * (2 + MaxRestarts)
Absent == 0

\* Payloads carried by frames and events ("" is the empty / missing payload).
Payloads == {"", "QUJD"}

FrameTypes ==
  { "session.created",
    "conversation.item.input_audio_transcription.completed",
    "response.text.done",
    "response.audio_transcript.done",
    "response.audio.delta",
    "response.audio.done",
    "response.done",
    "response.created",
    "input_audio_buffer.speech_started",
    "input_audio_buffer.speech_stopped",
    "error",
    "unrecognized",
    "malformed" }

\* The frame types whose branch reads a payload of the frame.
PayloadTypes ==
  { "session.created",
    "conversation.item.input_audio_transcription.completed",
    "response.text.done",
    "response.audio_transcript.done",
    "response.audio.delta",
    "error" }

\* Every frame the downstream service can deliver.
AllFrames ==
  [type : PayloadTypes, data : Payloads]
    \cup [type : FrameTypes \ PayloadTypes, data : {""}]

\* The frames around a response boundary, one published frame, one that raises.
BoundaryFrames ==
  { [type |-> "response.created", data |-> ""],
    [type |-> "response.done", data |-> ""],
    [type |-> "response.audio.delta", data |-> "QUJD"],
    [type |-> "malformed", data |-> ""] }

NoFrame == [type |-> "none", data |-> ""]

VARIABLES
  ws_client,           \* TRUE iff the websocket-client import succeeded
  active_connections,  \* registry: sid -> session object, Absent if no entry
  session,             \* the fields of every WebVoiceLiveSession object
  conn,                \* the downstream connection of every session object
  player,              \* the audio player of every session object
  sent,                \* frames sent downstream for every client, by kind
  relay,               \* the relay thread of every session: pc and frame in hand
  rcvd,                \* frames every relay has received, in order
  pub,                 \* client events every relay has published, in order
  pendingDel,          \* handlers that have run stop_session and not yet del
  outstanding,         \* response.create frames the client's session has sent
                       \* since its relay last received a response.done
  boundary,            \* the latest of: response_started, response_complete, stop
  stopped,             \* whether stop_session has been called on the session
  spawned,             \* relay threads started for every session
  last                 \* the step just taken: operation, target, outcome, emits

vars == << ws_client, active_connections, session, conn, player, sent, relay,
           rcvd, pub, pendingDel, outstanding, boundary, stopped, spawned, last >>

\* ---------------------------------------------------------------- helpers
RECURSIVE SumLen(_, _)
SumLen(f, S) ==
  IF S = {} THEN 0
  ELSE LET o == CHOOSE x \in S : TRUE IN Len(f[o]) + SumLen(f, S \ {o})

\* Audio and response.create frames sent so far for client sid.
TotalSent(sid) == sent[sid].append + sent[sid].create

\* Frames received so far by all relays.
TotalRcvd == SumLen(rcvd, Objs)

Created(o) == session[o].session_id /= NoSid

\* Session o is the one the registry holds for its client.
Registered(o) ==
  /\ session[o].session_id \in Sids
  /\ active_connections[session[o].session_id] = o

\* A session object nothing refers to any more: no registry entry maps to it
\* and no relay thread runs on it.  CPython frees it at once.
Garbage(o) ==
  /\ session[o].session_id \in Sids
  /\ \A s \in Sids : active_connections[s] /= o
  /\ relay[o].pc \in {"idle", "exit"}

\* No object waits to be freed: the condition of every step but Collect.
Settled == \A o \in Objs : ~Garbage(o)

\* The transport delivers the events of one client one at a time: no handler
\* of sid is between its stop_session and its del.
Delivered(sid) == ~pendingDel[sid].stop /\ ~pendingDel[sid].disconnect

\* The sessions of sid that the registry no longer holds.
Left(sid) == {o \in SlotsOf(sid) : Created(o) /\ active_connections[sid] /= o}

\* The next session object to construct for sid, Absent when the bound is
\* reached.
FreshObj(sid) ==
  IF Cardinality(Left(sid)) <= MaxRestarts /\ \E o \in SlotsOf(sid) : ~Created(o)
  THEN CHOOSE o \in SlotsOf(sid) :
         ~Created(o) /\ \A p \in SlotsOf(sid) : p < o => Created(p)
  ELSE Absent

Step(op, sid, obj, res, emits, raised) ==
  [op |-> op, sid |-> sid, obj |-> obj, res |-> res,
   emits |-> emits, raised |-> raised]

NoSent == [update |-> 0, append |-> 0, create |-> 0]

\* WebVoiceLiveSession.__init__
NewSession(sid) ==
  [session_id |-> sid, connection |-> FALSE,
   is_active |-> FALSE, response_in_progress |-> FALSE]

Unborn ==
  [session_id |-> NoSid, connection |-> FALSE,
   is_active |-> FALSE, response_in_progress |-> FALSE]

Init ==
  /\ ws_client \in BOOLEAN
  /\ active_connections = [s \in Sids |-> Absent]
  /\ session = [o \in Objs |-> Unborn]
  /\ conn = [o \in Objs |-> "absent"]
  /\ player = [o \in Objs |-> "absent"]
  /\ sent = [s \in Sids |-> NoSent]
  /\ relay = [o \in Objs |-> [pc |-> "idle", frame |-> NoFrame]]
  /\ rcvd = [o \in Objs |-> << >>]
  /\ pub = [o \in Objs |-> << >>]
  /\ pendingDel = [s \in Sids |-> [stop |-> FALSE, disconnect |-> FALSE]]
  /\ outstanding = [s \in Sids |-> 0]
  /\ boundary = [o \in Objs |-> "none"]
  /\ stopped = [o \in Objs |-> FALSE]
  /\ spawned = [o \in Objs |-> 0]
  /\ last = Step("init", NoSid, Absent, "init", << >>, FALSE)

\* --------------------------------------------- the downstream connection
\* VoiceLiveConnection.send: delivers the frame or raises; on a closed
\* connection nothing is delivered.
SendOutcomes(o) == IF conn[o] = "open" THEN {"ok", "error"} ELSE {"error"}

\* VoiceLiveConnection.close: closes or raises (e.g. already closed).
CloseOutcomes == {"ok", "error"}

\* credential.get_token, client.connect and the first connection.send, in
\* the order start_session runs them, and the ImportError before the try.
StartOutcomes ==
  IF ws_client
  THEN {"token_error", "connect_error", "send_error", "started"}
  ELSE {"import_error"}

\* start_session that sets is_active before it sends the configuration.
StartActiveBeforeSend(o, sid, out) ==
  LET opened == out \in {"send_error", "started"}
      ok == out = "started"
  IN
  /\ session' = [session EXCEPT ![o] =
                   [NewSession(sid) EXCEPT !.connection = opened,
                                           !.is_active = opened]]
  /\ conn' = [conn EXCEPT ![o] = IF opened THEN "open" ELSE "absent"]
  /\ sent' = [sent EXCEPT ![sid].update = IF ok THEN @ + 1 ELSE @]
  /\ outstanding' = [outstanding EXCEPT ![sid] = 0]
  /\ relay' = [relay EXCEPT ![o].pc = IF ok THEN "loop" ELSE "idle"]
  /\ spawned' = [spawned EXCEPT ![o] = IF ok THEN @ + 1 ELSE @]
  /\ last' = Step("start", sid, o, out,
                  IF ok THEN << "session_started" >>
                  ELSE IF out = "import_error" THEN << >>
                  ELSE << "session_error" >>,
                  out = "import_error")

\* ------------------------------------------------- WebVoiceLiveSession
\* start_session on the session o just constructed for sid; out is the
\* first step that fails, or "started".
start_session(o, sid, out) ==
  LET opened == out \in {"send_error", "started"}
      ok == out = "started"
  IN
  /\ session' = [session EXCEPT ![o] =
                   [NewSession(sid) EXCEPT !.connection = opened,
                                           !.is_active = ok]]
  /\ conn' = [conn EXCEPT ![o] = IF opened THEN "open" ELSE "absent"]
  /\ sent' = [sent EXCEPT ![sid].update = IF ok THEN @ + 1 ELSE @]
  /\ outstanding' = [outstanding EXCEPT ![sid] = 0]
  /\ relay' = [relay EXCEPT ![o].pc = IF ok THEN "loop" ELSE "idle"]
  /\ spawned' = [spawned EXCEPT ![o] = IF ok THEN @ + 1 ELSE @]
  /\ last' = Step("start", sid, o, out,
                  IF ok THEN << "session_started" >>
                  ELSE IF out = "import_error" THEN << >>
                  ELSE << "session_error" >>,
                  out = "import_error")

\* send_audio without the test of is_active.
SendAudioGuardNoActive(o) == session[o].connection

\* The condition of send_audio.
SendAudioGuard(o) == session[o].connection /\ session[o].is_active

\* trigger_response without the test of response_in_progress.
TriggerGuardUngated(o) == session[o].connection /\ session[o].is_active

\* The first condition of trigger_response.
TriggerGuard(o) ==
  /\ session[o].connection
  /\ session[o].is_active
  /\ ~session[o].response_in_progress

\* send_audio on session o; out is what connection.send does.
send_audio(o, sid, out) ==
  IF SendAudioGuard(o)
  THEN /\ out \in SendOutcomes(o)
       /\ out = "ok" => TotalSent(sid) < MaxSend
       /\ sent' = [sent EXCEPT ![sid].append = IF out = "ok" THEN @ + 1 ELSE @]
       /\ last' = Step("audio_data", sid, o,
                       IF out = "ok" THEN "sent" ELSE "send_error", << >>, FALSE)
  ELSE /\ out = "error"
       /\ sent' = sent
       /\ last' = Step("audio_data", sid, o, "inactive", << >>, FALSE)

\* trigger_response on session o; out is what connection.send does.
trigger_response(o, sid, out) ==
  IF TriggerGuard(o)
  THEN /\ out \in SendOutcomes(o)
       /\ out = "ok" => TotalSent(sid) < MaxSend
       /\ sent' = [sent EXCEPT ![sid].create = IF out = "ok" THEN @ + 1 ELSE @]
       /\ outstanding' =
            [outstanding EXCEPT ![sid] = IF out = "ok" THEN @ + 1 ELSE @]
       /\ last' = Step("trigger_response", sid, o,
                       IF out = "ok" THEN "sent" ELSE "send_error", << >>, FALSE)
  ELSE /\ out = "error"
       /\ UNCHANGED << sent, outstanding >>
       /\ last' = Step("trigger_response", sid, o,
                       IF session[o].response_in_progress
                       THEN "skip_in_progress" ELSE "not_ready",
                       << >>, FALSE)

\* stop_session that leaves is_active as it is.
StopKeepsActive(o, out) ==
  /\ session' = [session EXCEPT ![o].response_in_progress = FALSE]
  /\ conn' = [conn EXCEPT ![o] =
                IF session[o].connection /\ out = "ok" THEN "closed" ELSE @]
  /\ player' = [player EXCEPT ![o] =
                  IF session[o].connection /\ out = "error" THEN @
                  ELSE "terminated"]
  /\ stopped' = [stopped EXCEPT ![o] = TRUE]
  /\ boundary' = [boundary EXCEPT ![o] = "stop"]

\* stop_session on session o; out is what connection.close does.  A raise
\* from close leaves stop_session before the audio player is terminated.
stop_session(o, out) ==
  /\ session' = [session EXCEPT ![o].is_active = FALSE,
                                ![o].response_in_progress = FALSE]
  /\ conn' = [conn EXCEPT ![o] =
                IF session[o].connection /\ out = "ok" THEN "closed" ELSE @]
  /\ player' = [player EXCEPT ![o] =
                  IF session[o].connection /\ out = "error" THEN @
                  ELSE "terminated"]
  /\ stopped' = [stopped EXCEPT ![o] = TRUE]
  /\ boundary' = [boundary EXCEPT ![o] = "stop"]

\* Whether stop_session on o raises when close does out.
StopRaises(o, out) == session[o].connection /\ out = "error"

\* ------------------------------------------------------ Socket.IO handlers
\* handle_start_session that also starts over a registered session that is
\* not active.
StartGuardInactive(sid) ==
  IF active_connections[sid] = Absent THEN TRUE
  ELSE ~session[active_connections[sid]].is_active

\* The condition of handle_start_session.
StartGuard(sid) == active_connections[sid] = Absent

\* @socketio.on('start_voice_session')
handle_start_session(sid) ==
  \/ /\ Settled /\ Delivered(sid)
     /\ ~StartGuard(sid)
     /\ last' = Step("start", sid, active_connections[sid], "noop", << >>, FALSE)
     /\ UNCHANGED << ws_client, active_connections, session, conn, player, sent,
                     relay, rcvd, pub, pendingDel, outstanding, boundary, stopped,
                     spawned >>
  \/ /\ Settled /\ Delivered(sid)
     /\ StartGuard(sid)
     /\ FreshObj(sid) /= Absent
     /\ \E out \in StartOutcomes :
          /\ active_connections' =
               [active_connections EXCEPT ![sid] = FreshObj(sid)]
          /\ player' = [player EXCEPT ![FreshObj(sid)] = "live"]
          /\ start_session(FreshObj(sid), sid, out)
     /\ UNCHANGED << ws_client, rcvd, pub, pendingDel, boundary, stopped >>

\* @socketio.on('audio_data'); audio is data.get('audio').
handle_audio_data(sid, audio) ==
  /\ Settled /\ Delivered(sid)
  /\ IF active_connections[sid] = Absent
     THEN /\ last' = Step("audio_data", sid, Absent, "no_session", << >>, FALSE)
          /\ sent' = sent
     ELSE IF audio = ""
     THEN /\ last' = Step("audio_data", sid, active_connections[sid],
                          "no_audio", << >>, FALSE)
          /\ sent' = sent
     ELSE \E out \in {"ok", "error"} :
            send_audio(active_connections[sid], sid, out)
  /\ UNCHANGED << ws_client, active_connections, session, conn, player, relay,
                  rcvd, pub, pendingDel, outstanding, boundary, stopped, spawned >>

\* A trigger handler that indexes the registry without the membership test.
handle_trigger_unchecked(sid) ==
  /\ Settled /\ Delivered(sid)
  /\ IF active_connections[sid] = Absent
     THEN /\ last' = Step("trigger_response", sid, Absent, "key_error",
                          << >>, TRUE)
          /\ UNCHANGED << sent, outstanding >>
     ELSE \E out \in {"ok", "error"} :
            trigger_response(active_connections[sid], sid, out)
  /\ UNCHANGED << ws_client, active_connections, session, conn, player, relay,
                  rcvd, pub, pendingDel, boundary, stopped, spawned >>

\* @socketio.on('trigger_response')
handle_trigger_response(sid) ==
  /\ Settled /\ Delivered(sid)
  /\ IF active_connections[sid] = Absent
     THEN /\ last' = Step("trigger_response", sid, Absent, "no_session",
                          << >>, FALSE)
          /\ UNCHANGED << sent, outstanding >>
     ELSE \E out \in {"ok", "error"} :
            trigger_response(active_connections[sid], sid, out)
  /\ UNCHANGED << ws_client, active_connections, session, conn, player, relay,
                  rcvd, pub, pendingDel, boundary, stopped, spawned >>

\* A pause_session that clears is_active and a resume_session that sets it.
handle_pause_switches(sid, op) ==
  /\ Settled /\ Delivered(sid)
  /\ last' = IF active_connections[sid] = Absent
             THEN Step(op, sid, Absent, "no_session", << >>, FALSE)
             ELSE Step(op, sid, active_connections[sid], "ok",
                       << IF op = "pause_session" THEN "session_paused"
                          ELSE "session_resumed" >>, FALSE)
  /\ session' = IF active_connections[sid] = Absent THEN session
                ELSE [session EXCEPT ![active_connections[sid]].is_active =
                        (op = "resume_session")]
  /\ UNCHANGED << ws_client, active_connections, conn, player, sent,
                  relay, rcvd, pub, pendingDel, outstanding, boundary, stopped,
                  spawned >>

\* @socketio.on('pause_session') and @socketio.on('resume_session'):
\* pause_session and resume_session only print.
handle_pause_resume(sid, op) ==
  /\ Settled /\ Delivered(sid)
  /\ last' = IF active_connections[sid] = Absent
             THEN Step(op, sid, Absent, "no_session", << >>, FALSE)
             ELSE Step(op, sid, active_connections[sid], "ok",
                       << IF op = "pause_session" THEN "session_paused"
                          ELSE "session_resumed" >>, FALSE)
  /\ UNCHANGED << ws_client, active_connections, session, conn, player, sent,
                  relay, rcvd, pub, pendingDel, outstanding, boundary, stopped,
                  spawned >>

handle_pause_session(sid) == handle_pause_resume(sid, "pause_session")

handle_resume_session(sid) == handle_pause_resume(sid, "resume_session")

\* The membership test and the stop_session call of handle_stop_session
\* (kind "stop") and handle_disconnect (kind "disconnect").
StopCall(sid, kind) ==
  /\ Settled
  /\ ~pendingDel[sid][kind]
  /\ IF active_connections[sid] = Absent
     THEN /\ last' = Step(kind, sid, Absent, "no_session", << >>, FALSE)
          /\ UNCHANGED << session, conn, player, stopped, boundary, pendingDel >>
     ELSE \E out \in CloseOutcomes :
            LET o == active_connections[sid] IN
            /\ stop_session(o, out)
            /\ pendingDel' =
                 [pendingDel EXCEPT ![sid][kind] = ~StopRaises(o, out)]
            /\ last' = Step(kind, sid, o,
                            IF StopRaises(o, out) THEN "close_error"
                            ELSE "stopped",
                            << >>, StopRaises(o, out))
  /\ UNCHANGED << ws_client, active_connections, sent, relay, rcvd, pub,
                  outstanding, spawned >>

\* del active_connections[session_id], and the emit that follows it in
\* handle_stop_session.
StopDel(sid, kind) ==
  /\ Settled
  /\ pendingDel[sid][kind]
  /\ pendingDel' = [pendingDel EXCEPT ![sid][kind] = FALSE]
  /\ IF active_connections[sid] = Absent
     THEN /\ last' = Step(kind, sid, Absent, "key_error", << >>, TRUE)
          /\ UNCHANGED active_connections
     ELSE /\ active_connections' = [active_connections EXCEPT ![sid] = Absent]
          /\ last' = Step(kind, sid, active_connections[sid], "deleted",
                          IF kind = "stop" THEN << "session_stopped" >>
                          ELSE << >>, FALSE)
  /\ UNCHANGED << ws_client, session, conn, player, sent, relay, rcvd, pub,
                  outstanding, boundary, stopped, spawned >>

\* @socketio.on('stop_voice_session')
handle_stop_session(sid) ==
  \/ Delivered(sid) /\ StopCall(sid, "stop")
  \/ StopDel(sid, "stop")

\* @socketio.on('disconnect')
handle_disconnect(sid) ==
  \/ Delivered(sid) /\ StopCall(sid, "disconnect")
  \/ StopDel(sid, "disconnect")

\* ------------------------------------------------- _listen_for_responses
Event(name, data) == [name |-> name, data |-> data]

\* json.loads of a malformed frame raises; so does session.get('id') when a
\* session.created frame carries no session.
DispatchRaises(f) ==
  \/ f.type = "malformed"
  \/ f.type = "session.created" /\ f.data = ""

\* The if/elif chain without the branch of the error frame.
EventsDropError(f) ==
  CASE f.type = "conversation.item.input_audio_transcription.completed" ->
         << Event("transcript", f.data) >>
    [] f.type = "response.text.done" -> << Event("agent_text", f.data) >>
    [] f.type = "response.audio_transcript.done" ->
         << Event("agent_audio_transcript", f.data) >>
    [] f.type = "response.audio.delta" ->
         IF f.data /= "" THEN << Event("audio_chunk", f.data) >> ELSE << >>
    [] f.type = "response.audio.done" -> << Event("response_audio_done", "") >>
    [] f.type = "response.done" -> << Event("response_complete", "") >>
    [] f.type = "response.created" -> << Event("response_started", "") >>
    [] f.type = "input_audio_buffer.speech_started" ->
         << Event("speech_started", "") >>
    [] f.type = "input_audio_buffer.speech_stopped" ->
         << Event("speech_stopped", "") >>
    [] OTHER -> << >>

\* The if/elif chain on event_type: the client events a frame is published as.
EventsOf(f) ==
  CASE f.type = "conversation.item.input_audio_transcription.completed" ->
         << Event("transcript", f.data) >>
    [] f.type = "response.text.done" -> << Event("agent_text", f.data) >>
    [] f.type = "response.audio_transcript.done" ->
         << Event("agent_audio_transcript", f.data) >>
    [] f.type = "response.audio.delta" ->
         IF f.data /= "" THEN << Event("audio_chunk", f.data) >> ELSE << >>
    [] f.type = "response.audio.done" -> << Event("response_audio_done", "") >>
    [] f.type = "response.done" -> << Event("response_complete", "") >>
    [] f.type = "response.created" -> << Event("response_started", "") >>
    [] f.type = "input_audio_buffer.speech_started" ->
         << Event("speech_started", "") >>
    [] f.type = "input_audio_buffer.speech_stopped" ->
         << Event("speech_stopped", "") >>
    [] f.type = "error" -> << Event("api_error", f.data) >>
    [] OTHER -> << >>

\* The frames whose branch assigns response_in_progress before it emits.
SetsFlag(f) == f.type \in {"response.created", "response.done"}

\* An emit that reaches the client ahead of the events emitted before it.
PublishAhead(o, evs, hist) ==
  pub' = [pub EXCEPT ![o] =
            IF hist
            THEN [i \in 1 .. Len(evs) |->
                    [name |-> evs[i].name, data |-> evs[i].data,
                     room |-> session[o].session_id]] \o @
            ELSE @]

\* An emit without room=, which goes to every connected client.
PublishBroadcast(o, evs, hist) ==
  pub' = [pub EXCEPT ![o] =
            IF hist
            THEN @ \o [i \in 1 .. Len(evs) |->
                         [name |-> evs[i].name, data |-> evs[i].data,
                          room |-> "broadcast"]]
            ELSE @]

\* socketio.emit(..., room=self.session_id) of the events evs by session o;
\* pub keeps them when hist is set.
Publish(o, evs, hist) ==
  pub' = [pub EXCEPT ![o] =
            IF hist
            THEN @ \o [i \in 1 .. Len(evs) |->
                         [name |-> evs[i].name, data |-> evs[i].data,
                          room |-> session[o].session_id]]
            ELSE @]

\* What a step of a relay thread leaves in last (res is not recorded).
RelayStep(o, res) == Step("relay", NoSid, Absent, "step", << >>, FALSE)

\* The loop condition without the test of is_active.
LoopGuardConnected(o) == session[o].connection

\* The loop condition: while self.is_active and self.connection.
LoopGuard(o) == session[o].is_active /\ session[o].connection

RelayLoop(o) ==
  /\ Settled
  /\ relay[o].pc = "loop"
  /\ relay' = [relay EXCEPT ![o].pc = IF LoopGuard(o) THEN "recv" ELSE "exit"]
  /\ last' = RelayStep(o, IF LoopGuard(o) THEN "enter" ELSE "exit")
  /\ UNCHANGED << ws_client, active_connections, session, conn, player, sent,
                  rcvd, pub, pendingDel, outstanding, boundary, stopped, spawned >>

\* raw_event = self.connection.recv(): nothing, a raise, or (on an open
\* connection) one of the frames F; rcvd keeps the frame when hist is set.
RelayRecv(o, F, hist) ==
  /\ Settled
  /\ relay[o].pc = "recv"
  /\ \/ /\ relay' = [relay EXCEPT ![o].pc = "sleep_idle"]
        /\ last' = RelayStep(o, "recv_none")
        /\ UNCHANGED << rcvd, outstanding >>
     \/ /\ relay' = [relay EXCEPT ![o].pc = "sleep_error"]
        /\ last' = RelayStep(o, "recv_raise")
        /\ UNCHANGED << rcvd, outstanding >>
     \/ /\ conn[o] = "open"
        /\ hist => TotalRcvd < MaxFrames
        /\ \E f \in F :
             /\ relay' = [relay EXCEPT ![o] = [pc |-> "dispatch", frame |-> f]]
             /\ rcvd' = [rcvd EXCEPT ![o] = IF hist THEN Append(@, f) ELSE @]
             /\ outstanding' =
                  IF f.type = "response.done" /\ Registered(o)
                  THEN [outstanding EXCEPT ![session[o].session_id] = 0]
                  ELSE outstanding
        /\ last' = RelayStep(o, "recv_frame")
  /\ UNCHANGED << ws_client, active_connections, session, conn, player, sent,
                  pub, pendingDel, boundary, stopped, spawned >>

\* json.loads and the branch of the frame in hand, up to and including the
\* assignment of response_in_progress; the other branches emit here.
RelayDispatch(o, hist) ==
  LET f == relay[o].frame IN
  /\ Settled
  /\ relay[o].pc = "dispatch"
  /\ IF DispatchRaises(f)
     THEN /\ relay' = [relay EXCEPT ![o] =
                         [pc |-> "sleep_error", frame |-> NoFrame]]
          /\ last' = RelayStep(o, "dispatch_raise")
          /\ UNCHANGED << session, pub >>
     ELSE IF SetsFlag(f)
     THEN /\ session' = [session EXCEPT ![o].response_in_progress =
                           (f.type = "response.created")]
          /\ relay' = [relay EXCEPT ![o].pc = "emit"]
          /\ last' = RelayStep(o, "assign")
          /\ UNCHANGED pub
     ELSE /\ Publish(o, EventsOf(f), hist)
          /\ relay' = [relay EXCEPT ![o] = [pc |-> "loop", frame |-> NoFrame]]
          /\ last' = RelayStep(o, "dispatch")
          /\ UNCHANGED session
  /\ UNCHANGED << ws_client, active_connections, conn, player, sent, rcvd,
                  pendingDel, outstanding, boundary, stopped, spawned >>

\* The socketio.emit that follows the assignment of response_in_progress.
RelayEmit(o, hist) ==
  LET f == relay[o].frame IN
  /\ Settled
  /\ relay[o].pc = "emit"
  /\ Publish(o, EventsOf(f), hist)
  /\ boundary' = [boundary EXCEPT ![o] =
                    IF f.type = "response.created" THEN "created" ELSE "done"]
  /\ relay' = [relay EXCEPT ![o] = [pc |-> "loop", frame |-> NoFrame]]
  /\ last' = RelayStep(o, "emit")
  /\ UNCHANGED << ws_client, active_connections, session, conn, player, sent,
                  rcvd, pendingDel, outstanding, stopped, spawned >>

\* An except branch that leaves the loop after its sleep.
RelaySleepGivesUp(o) ==
  /\ Settled
  /\ relay[o].pc \in {"sleep_idle", "sleep_error"}
  /\ relay' = [relay EXCEPT ![o].pc =
                  IF relay[o].pc = "sleep_error" THEN "exit" ELSE "loop"]
  /\ last' = RelayStep(o, "wake")
  /\ UNCHANGED << ws_client, active_connections, session, conn, player, sent,
                  rcvd, pub, pendingDel, outstanding, boundary, stopped, spawned >>

\* time.sleep(0.01) after an empty recv, time.sleep(0.1) after a raise.
RelaySleep(o) ==
  /\ Settled
  /\ relay[o].pc \in {"sleep_idle", "sleep_error"}
  /\ relay' = [relay EXCEPT ![o].pc = "loop"]
  /\ last' = RelayStep(o, "wake")
  /\ UNCHANGED << ws_client, active_connections, session, conn, player, sent,
                  rcvd, pub, pendingDel, outstanding, boundary, stopped, spawned >>

\* ---------------------------------------------------------- specifications
\* CPython frees a session object when the last reference to it goes.
Collect(o) ==
  /\ Garbage(o)
  /\ session' = [session EXCEPT ![o] = [Unborn EXCEPT !.session_id = Freed]]
  /\ conn' = [conn EXCEPT ![o] = "absent"]
  /\ player' = [player EXCEPT ![o] = "absent"]
  /\ relay' = [relay EXCEPT ![o] = [pc |-> "idle", frame |-> NoFrame]]
  /\ rcvd' = [rcvd EXCEPT ![o] = << >>]
  /\ pub' = [pub EXCEPT ![o] = << >>]
  /\ boundary' = [boundary EXCEPT ![o] = "none"]
  /\ stopped' = [stopped EXCEPT ![o] = FALSE]
  /\ spawned' = [spawned EXCEPT ![o] = 0]
  /\ UNCHANGED << ws_client, active_connections, sent, pendingDel,
                  outstanding, last >>

Relay(o, F, hist) ==
  \/ RelayLoop(o)
  \/ RelayRecv(o, F, hist)
  \/ RelayDispatch(o, hist)
  \/ RelayEmit(o, hist)
  \/ RelaySleep(o)

\* One client; the downstream service delivers the response-boundary frames.
Next ==
  \/ \E sid \in OneClient : handle_start_session(sid)
  \/ \E sid \in OneClient, audio \in Payloads : handle_audio_data(sid, audio)
  \/ \E sid \in OneClient : handle_trigger_response(sid)
  \/ \E sid \in OneClient : handle_pause_session(sid)
  \/ \E sid \in OneClient : handle_resume_session(sid)
  \/ \E sid \in OneClient : handle_stop_session(sid)
  \/ \E sid \in OneClient : handle_disconnect(sid)
  \/ \E o \in Objs : Relay(o, BoundaryFrames, FALSE)
  \/ \E o \in Objs : Collect(o)

Spec == Init /\ [][Next]_vars

\* One client that starts once and stops; the downstream service delivers every
\* frame, and the relays' history (rcvd, pub) is kept.
NextRelay ==
  \/ \E sid \in OneClient : Left(sid) = {} /\ handle_start_session(sid)
  \/ \E sid \in OneClient : handle_stop_session(sid)
  \/ \E o \in Objs : Relay(o, AllFrames, TRUE)
  \/ \E o \in Objs : Collect(o)

SpecRelay == Init /\ [][NextRelay]_vars

\* One client that starts once, stops and disconnects, with the relay threads
\* and the freeing of objects scheduled fairly: a thread that can take a step
\* takes it in the end, and every recv returns.
NextLive ==
  \/ \E sid \in OneClient : Left(sid) = {} /\ handle_start_session(sid)
  \/ \E sid \in OneClient : handle_trigger_response(sid)
  \/ \E sid \in OneClient : handle_stop_session(sid)
  \/ \E sid \in OneClient : handle_disconnect(sid)
  \/ \E o \in Objs : Relay(o, BoundaryFrames, FALSE)
  \/ \E o \in Objs : Collect(o)

SpecLive ==
  /\ Init
  /\ [][NextLive]_vars
  /\ \A o \in Objs : WF_vars(Relay(o, BoundaryFrames, FALSE))
  /\ \A o \in Objs : WF_vars(Collect(o))

\* handle_stop_session and handle_disconnect when the server runs the
\* handlers of one client in threads of their own: either may run between the
\* stop_session call and the del of the other.
ConcStop(sid) == StopCall(sid, "stop") \/ StopDel(sid, "stop")

ConcDisconnect(sid) == StopCall(sid, "disconnect") \/ StopDel(sid, "disconnect")

\* One client whose stop and disconnect handlers may overlap.
NextConc ==
  \/ \E sid \in OneClient : handle_start_session(sid)
  \/ \E sid \in OneClient : ConcStop(sid)
  \/ \E sid \in OneClient : ConcDisconnect(sid)
  \/ \E o \in Objs : Relay(o, BoundaryFrames, FALSE)
  \/ \E o \in Objs : Collect(o)

SpecConc == Init /\ [][NextConc]_vars

\* The frames of a response: its start and a piece of its audio.
ResponseFrames ==
  { [type |-> "response.created", data |-> ""],
    [type |-> "response.audio.delta", data |-> "QUJD"] }

\* Two clients, each starting once; sidA triggers responses and stops while
\* sidB's session stays; the relays' history is kept.
NextTwo ==
  \/ \E sid \in Sids : Left(sid) = {} /\ handle_start_session(sid)
  \/ \E sid \in OneClient : handle_trigger_response(sid)
  \/ \E sid \in OneClient : handle_stop_session(sid)
  \/ \E o \in Objs : Relay(o, ResponseFrames, TRUE)
  \/ \E o \in Objs : Collect(o)

SpecTwo == Init /\ [][NextTwo]_vars

\* ------------------------------------------------------------------ claims
\* The session the registry holds for sid.
Reg(sid) == active_connections[sid]

\* The step taken is the handler op of client sid.
Handled(op, sid) == last'.op = op /\ last'.sid = sid

\* The step taken called stop_session on session o.
StopCalled(o) ==
  /\ last'.op \in {"stop", "disconnect"}
  /\ last'.res \in {"stopped", "close_error"}
  /\ last'.obj = o

\* C1: a trigger_response made while response_in_progress is true sends no
\* response.create frame downstream and leaves is_active,
\* response_in_progress and the registry unchanged; the skip is logged.
C1_TriggerGated ==
  [][\A sid \in Sids :
       ( /\ Handled("trigger_response", sid)
         /\ Reg(sid) /= Absent
         /\ session[Reg(sid)].response_in_progress )
       => /\ sent' = sent
          /\ session' = session
          /\ active_connections' = active_connections
          /\ last'.res = "skip_in_progress"]_vars

\* C1 witness: a trigger_response has just been skipped on an active session
\* whose response is in progress.
C1_Witness ==
  /\ last.op = "trigger_response"
  /\ last.res = "skip_in_progress"
  /\ session[last.obj].is_active
  /\ session[last.obj].response_in_progress

\* C2: no second response.create is sent downstream before the relay has
\* received the response.done of the response requested before.
C2_OneOutstanding == \A sid \in Sids : outstanding[sid] <= 1

\* C3: between the relay's dispatches, response_in_progress is true iff a
\* response_started was published more recently than any response_complete
\* and any stop_session call.
C3_FlagTracksBoundary ==
  \A o \in Objs :
    (Created(o) /\ relay[o].pc /= "emit")
    => (session[o].response_in_progress <=> boundary[o] = "created")

\* C4: response_in_progress is never true while is_active is false.
C4_NoProgressWhileInactive ==
  \A o \in Objs : session[o].response_in_progress => session[o].is_active

\* C5: the connection handle of a session is non-null iff is_active is true.
C5_ConnectionIffActive ==
  \A o \in Objs :
    session[o].session_id \in Sids
    => (session[o].connection <=> session[o].is_active)

\* C6: a start_voice_session for an id that has a registry entry changes
\* neither the registry nor any session, connection or relay thread, and no
\* session ever has more than one relay thread started for it.
C6_StartOnce ==
  /\ [][\A sid \in Sids :
          (Handled("start", sid) /\ Reg(sid) /= Absent)
          => /\ last'.res = "noop"
             /\ UNCHANGED << active_connections, session, conn, player, relay,
                             spawned, sent >>]_vars
  /\ [](\A o \in Objs : spawned[o] <= 1)

\* C6 witness: a start request has just been ignored for an id whose
\* session is registered and whose relay thread runs.
C6_Witness ==
  /\ last.op = "start"
  /\ last.res = "noop"
  /\ Reg(last.sid) = last.obj
  /\ spawned[last.obj] = 1

\* C7: a stop_session call on a session that was stopped before raises no
\* error and changes no field of the session.
C7_StopIdempotent ==
  [][\A o \in Objs :
       (stopped[o] /\ StopCalled(o))
       => (~last'.raised /\ session'[o] = session[o])]_vars

\* C8: a send_audio on a registered session whose is_active is false sends no
\* frame downstream and raises no error.
C8_InactiveAudioDropped ==
  [][\A sid \in Sids, audio \in Payloads \ {""} :
       ( /\ handle_audio_data(sid, audio)
         /\ Reg(sid) /= Absent
         /\ ~session[Reg(sid)].is_active )
       => (sent' = sent /\ ~last'.raised /\ last'.res = "inactive")]_vars

\* C8 witness: audio has just been dropped for a session that is not active
\* and still holds a connection.
C8_Witness ==
  /\ last.op = "audio_data"
  /\ last.res = "inactive"
  /\ ~session[last.obj].is_active
  /\ session[last.obj].connection

StartFailures == {"import_error", "token_error", "connect_error", "send_error"}

\* C9: after a start_session that failed, the session is not active, holds
\* no connection and none stays open, no relay thread runs, and exactly a
\* session_error (no session_started) was published.
C9_FailedStartCleansUp ==
  (last.op = "start" /\ last.res \in StartFailures)
  => /\ ~session[last.obj].is_active
     /\ ~session[last.obj].connection
     /\ conn[last.obj] /= "open"
     /\ relay[last.obj].pc = "idle"
     /\ last.emits = << "session_error" >>

RECURSIVE Image(_, _)
\* The client events the frames fs are published as, in order, to room.
Image(fs, room) ==
  IF fs = << >> THEN << >>
  ELSE [i \in 1 .. Len(EventsOf(Head(fs))) |->
          [name |-> EventsOf(Head(fs))[i].name,
           data |-> EventsOf(Head(fs))[i].data,
           room |-> room]] \o Image(Tail(fs), room)

\* The frames relay o has received and finished with.
Relayed(o) ==
  IF relay[o].pc \in {"dispatch", "emit"}
  THEN SubSeq(rcvd[o], 1, Len(rcvd[o]) - 1)
  ELSE rcvd[o]

\* C10: the events a relay has published are the image, in order, of the
\* frames it has received, but for the one frame it holds.
C10_RelayInOrder ==
  \A o \in Objs : pub[o] = Image(Relayed(o), session[o].session_id)

\* C10 witness: an audio_chunk carrying QUJD was published and, after it, the
\* response_complete of a response.done received later.
C10_Witness ==
  \E o \in Objs :
    /\ Len(pub[o]) = 2
    /\ pub[o][1].name = "audio_chunk" /\ pub[o][1].data = "QUJD"
    /\ pub[o][2].name = "response_complete"
    /\ rcvd[o][1].type = "response.audio.delta"
    /\ rcvd[o][2].type = "response.done"


\* The relay thread of session o takes the step.
RelayMoves(o) == relay'[o] /= relay[o]

\* The relay of session o is in a backoff sleep.
Sleeping(o) == relay[o].pc \in {"sleep_idle", "sleep_error"}

\* C11: once stop_session has been called on a session whose relay is in a
\* backoff sleep, the relay only wakes up, observes is_active false at its
\* loop check and exits; from the stop until the relay has exited, no client
\* event is published and the relay changes no field of the session.
C11_StopDuringSleep ==
  [][\A o \in Objs :
       /\ (stopped[o] /\ Sleeping(o))
          => /\ ~session[o].is_active
             /\ pub'[o] = pub[o]
             /\ stopped'[o]
             /\ RelayMoves(o)
                => (relay'[o].pc = "loop" /\ session'[o] = session[o])
       /\ (stopped[o] /\ relay[o].pc = "loop")
          => /\ ~session[o].is_active
             /\ pub'[o] = pub[o]
             /\ stopped'[o]
             /\ RelayMoves(o)
                => (relay'[o].pc = "exit" /\ session'[o] = session[o])]_vars

\* C11 witness: stop_session has just been called on a session whose relay
\* is in the backoff sleep that follows a caught exception, after the relay
\* had published an event.
C11_Witness ==
  /\ last.op = "stop" /\ last.res = "stopped"
  /\ relay[last.obj].pc = "sleep_error"
  /\ Len(pub[last.obj]) > 0

\* The relay thread of session o has been started and has not returned.
Running(o) == relay[o].pc \notin {"idle", "exit"}

\* C12: after stop_session has been called on a session, the session's relay
\* thread eventually terminates, wherever in its loop it was.
C12_RelayTerminates ==
  \A o \in Objs : (stopped[o] /\ Running(o)) ~> ~Running(o)

\* C12 witness: the relay thread of a stopped session has returned although
\* close raised and the connection is still open.
C12_Witness ==
  \E o \in Objs :
    /\ stopped[o] /\ spawned[o] = 1
    /\ relay[o].pc = "exit"
    /\ conn[o] = "open"

\* C13: a recv, json.loads or dispatch that raises changes no session field
\* and does not end the relay loop: the relay sleeps, returns to the loop
\* check and, while the session is active and holds a connection, receives
\* again; a well-formed frame in hand is dispatched whatever failed before;
\* the loop ends only at a loop check that finds is_active or the connection
\* cleared.
C13_FailureKeepsLoop ==
  [][\A o \in Objs :
       /\ (relay[o].pc \in {"recv", "dispatch"} /\ relay'[o].pc = "sleep_error")
          => session' = session
       /\ (relay[o].pc = "sleep_error" /\ RelayMoves(o))
          => (relay'[o].pc = "loop" /\ session' = session)
       /\ (relay[o].pc = "loop" /\ RelayMoves(o))
          => relay'[o].pc = IF LoopGuard(o) THEN "recv" ELSE "exit"
       /\ ( /\ relay[o].pc = "dispatch" /\ RelayMoves(o)
            /\ ~DispatchRaises(relay[o].frame) )
          => IF SetsFlag(relay[o].frame)
             THEN relay'[o].pc = "emit"
             ELSE /\ relay'[o].pc = "loop"
                  /\ pub'[o] = pub[o] \o Image(<< relay[o].frame >>,
                                                session[o].session_id)
       /\ (relay'[o].pc = "exit" /\ relay[o].pc /= "exit")
          => (relay[o].pc = "loop" /\ ~LoopGuard(o))]_vars

\* C13 witness: an active session's relay has received a malformed frame
\* and, after it, a response.text.done that it has published as agent_text.
C13_Witness ==
  \E o \in Objs :
    /\ session[o].is_active
    /\ Len(rcvd[o]) = 2
    /\ rcvd[o][1].type = "malformed"
    /\ rcvd[o][2] = [type |-> "response.text.done", data |-> "QUJD"]
    /\ pub[o] = << [name |-> "agent_text", data |-> "QUJD", room |-> "sidA"] >>

\* C14: however the stop handler and the disconnect handler of a client are
\* ordered or overlap, neither fails on a registry key the other has removed,
\* and stop_session is not called on a session on which a stop_session call
\* has completed.
C14_StopOnceUnderRace ==
  [][\A sid \in Sids :
       (Settled /\ last'.sid = sid /\ last'.op \in {"stop", "disconnect"})
       => /\ last'.res /= "key_error"
          /\ last'.res = "stopped" => player[last'.obj] /= "terminated"]_vars

\* C15: when close raises inside stop_session, nothing is raised out of
\* stop_session or the handler and the stop completes: is_active and
\* response_in_progress are false, the audio player is terminated, and the
\* handler goes on to remove the registry entry.
C15_CloseFailureSwallowed ==
  (last.op \in {"stop", "disconnect"} /\ last.res = "close_error")
  => /\ ~last.raised
     /\ ~session[last.obj].is_active
     /\ ~session[last.obj].response_in_progress
     /\ player[last.obj] = "terminated"
     /\ pendingDel[last.sid][last.op]

\* C16: the relay publishes an error frame as exactly one api_error event
\* that carries the frame's error details, to the session's room, and the
\* step changes no session field, no connection and no registry entry; the
\* relay returns to its loop check.
C16_ErrorForwarded ==
  [][\A o \in Objs :
       ( /\ relay[o].pc = "dispatch"
         /\ relay[o].frame.type = "error"
         /\ RelayMoves(o) )
       => /\ pub'[o] = Append(pub[o], [name |-> "api_error",
                                       data |-> relay[o].frame.data,
                                       room |-> session[o].session_id])
          /\ session' = session
          /\ conn' = conn
          /\ active_connections' = active_connections
          /\ relay'[o].pc = "loop"]_vars

\* C16 witness: a registered, active session's relay has published the
\* api_error of an error frame carrying QUJD and is receiving again.
C16_Witness ==
  \E o \in Objs :
    /\ Registered(o) /\ session[o].is_active
    /\ rcvd[o] = << [type |-> "error", data |-> "QUJD"] >>
    /\ pub[o] = << [name |-> "api_error", data |-> "QUJD",
                    room |-> session[o].session_id] >>
    /\ relay[o].pc = "recv"

Commands ==
  {"audio_data", "trigger_response", "pause_session", "resume_session",
   "stop", "disconnect"}

\* C18: a command other than start handled for an id that has no registry
\* entry raises nothing, sends no frame downstream, publishes no client event
\* and changes neither the registry nor any session, connection or relay.
C18_UnregisteredNoop ==
  [][\A sid \in Sids :
       ( /\ Settled
         /\ last'.sid = sid /\ last'.op \in Commands
         /\ Reg(sid) = Absent )
       => /\ last'.res = "no_session"
          /\ ~last'.raised
          /\ last'.emits = << >>
          /\ UNCHANGED << active_connections, session, conn, player, sent,
                          relay, pub, pendingDel, spawned, stopped,
                          outstanding >>]_vars

\* C18 witness: a disconnect has just been handled for a client whose
\* session had been stopped and removed before.
C18_Witness ==
  /\ last.op = "disconnect" /\ last.res = "no_session"
  /\ Reg(last.sid) = Absent
  /\ Left(last.sid) /= {}

\* The start_session of session o failed: no relay thread was started for it.
StartFailed(o) == session[o].session_id \in Sids /\ spawned[o] = 0

\* C19: a start_session that fails leaves its session registered and not
\* active; while a session whose start failed is registered it is not active,
\* a further start for its id is ignored (nothing constructed, connected or
\* published), audio_data and trigger_response send no frame, and only a
\* stop or a disconnect removes the entry.
C19_FailedStartStays ==
  [][\A sid \in Sids :
       /\ (Settled /\ Handled("start", sid) /\ last'.res \in StartFailures)
          => /\ Reg(sid)' = last'.obj
             /\ spawned'[last'.obj] = 0
             /\ ~session'[last'.obj].is_active
       /\ (Settled /\ Reg(sid) /= Absent /\ StartFailed(Reg(sid)))
          => /\ ~session[Reg(sid)].is_active
             /\ Handled("start", sid)
                => /\ last'.res = "noop" /\ last'.emits = << >>
                   /\ UNCHANGED << active_connections, session, conn, player,
                                   relay, spawned, sent >>
             /\ (Handled("audio_data", sid) \/ Handled("trigger_response", sid))
                => sent' = sent
             /\ Reg(sid)' /= Reg(sid)
                => (last'.op \in {"stop", "disconnect"} /\ Reg(sid)' = Absent)
    ]_vars

\* C19 witness: a start request has just been ignored for an id whose
\* registered session had failed to start with its connection open.
C19_Witness ==
  /\ last.op = "start" /\ last.res = "noop"
  /\ Reg(last.sid) = last.obj
  /\ StartFailed(last.obj)
  /\ conn[last.obj] = "open"

\* Nothing of client t changes: its registry entry, its sent frames, and the
\* fields, connection, relay thread and published events of its sessions.
Untouched(t) ==
  /\ active_connections'[t] = active_connections[t]
  /\ sent'[t] = sent[t]
  /\ \A p \in SlotsOf(t) :
       /\ session'[p] = session[p]
       /\ conn'[p] = conn[p]
       /\ player'[p] = player[p]
       /\ relay'[p] = relay[p]
       /\ pub'[p] = pub[p]

\* C20: a handler run for client sid changes nothing of another client t,
\* and a step of the relay of one of sid's sessions changes nothing of t,
\* sends nothing, leaves the registry alone and publishes only to room sid.
C20_Isolation ==
  [][\A sid \in Sids : \A t \in Sids \ {sid} :
       /\ (Settled /\ last'.sid = sid) => Untouched(t)
       /\ \A o \in SlotsOf(sid) :
            (Running(o) /\ RelayMoves(o))
            => /\ Untouched(t)
               /\ sent' = sent
               /\ active_connections' = active_connections
               /\ \A i \in (Len(pub[o]) + 1) .. Len(pub'[o]) :
                    pub'[o][i].room = sid]_vars

\* C20 witness: two sessions are registered and active; sidA has triggered a
\* response and its relay has published response_started to room sidA, while
\* sidB's session has sent no request, has no response in progress and has
\* had nothing published.
C20_Witness ==
  \E a \in SlotsOf("sidA"), b \in SlotsOf("sidB") :
    /\ Registered(a) /\ Registered(b)
    /\ session[a].is_active /\ session[b].is_active
    /\ sent["sidA"].create = 1 /\ sent["sidB"].create = 0
    /\ session[a].response_in_progress /\ ~session[b].response_in_progress
    /\ pub[a] = << [name |-> "response_started", data |-> "", room |-> "sidA"] >>
    /\ pub[b] = << >>
====
